---------------------------- MODULE Spec2Model ----------------------------
(***************************************************************************)
(* A model of real.py: the class Real (arbitrary precision binary floating *)
(* point, value = coefficient * 2^exponent, at most `precision` bits of    *)
(* coefficient) and the module-level arithmetic built on it.               *)
(*                                                                         *)
(* Python integers are unbounded, and the default precision of a Real is   *)
(* 256 bits, so coefficients are modelled as sign-and-magnitude bit        *)
(* strings (least significant bit first) and not as machine integers.      *)
(* Exponents and precisions stay small and are plain integers.             *)
(***************************************************************************)
EXTENDS Integers, Sequences, FiniteSets

(***************************************************************************)
(* Python int: [neg |-> BOOLEAN, mag |-> bits, least significant first].   *)
(* The magnitude has no leading (most significant) zero bit, and zero is   *)
(* not negative, so equal integers are equal records.                      *)
(***************************************************************************)

mag_bit(s, i) == IF i <= Len(s) THEN s[i] ELSE 0

mag_zeros(k) == [i \in 1..k |-> 0]

\* All the recursions below halve an index range, so that their depth is the
\* logarithm of the number of bits.

\* the highest index in lo..hi where s has a 1 bit, or 0
RECURSIVE mag_top(_, _, _)
mag_top(s, lo, hi) ==
    IF lo > hi THEN 0
    ELSE IF lo = hi THEN (IF s[lo] = 1 THEN lo ELSE 0)
    ELSE LET mid == (lo + hi) \div 2
             up  == mag_top(s, mid + 1, hi)
         IN  IF up # 0 THEN up ELSE mag_top(s, lo, mid)

\* s without its leading (most significant) zero bits
mag_trim(s) == SubSeq(s, 1, mag_top(s, 1, Len(s)))

\* the bits of a natural number below 2^30
mag_of_nat(n) ==
    LET k == CHOOSE j \in 0..30 : n < 2^j /\ (j = 0 \/ n >= 2^(j - 1))
    IN  [i \in 1..k |-> (n \div 2^(i - 1)) % 2]

\* bits lo..hi of a + b + carry: [s |-> the sum bits, c |-> the carry out]
RECURSIVE mag_add_range(_, _, _, _, _)
mag_add_range(a, b, lo, hi, carry) ==
    IF lo = hi
    THEN LET t == mag_bit(a, lo) + mag_bit(b, lo) + carry
         IN  [s |-> <<t % 2>>, c |-> t \div 2]
    ELSE LET mid == (lo + hi) \div 2
             low == mag_add_range(a, b, lo, mid, carry)
             up  == mag_add_range(a, b, mid + 1, hi, low.c)
         IN  [s |-> low.s \o up.s, c |-> up.c]

mag_add(a, b) ==
    LET n == IF Len(a) > Len(b) THEN Len(a) ELSE Len(b)
    IN  IF n = 0 THEN <<>>
        ELSE LET r == mag_add_range(a, b, 1, n, 0)
             IN  IF r.c = 1 THEN r.s \o <<1>> ELSE r.s

\* a - b for a >= b: a + (the complement of b over the bits of a) + 1,
\* the carry out dropped
mag_sub(a, b) ==
    IF a = <<>> THEN <<>>
    ELSE mag_trim(mag_add_range(a, [i \in 1..Len(a) |-> 1 - mag_bit(b, i)],
                                1, Len(a), 1).s)

\* -1, 0, 1 as a < b, a = b, a > b on the bits lo..hi
RECURSIVE mag_cmp_range(_, _, _, _)
mag_cmp_range(a, b, lo, hi) ==
    IF lo > hi THEN 0
    ELSE IF lo = hi
         THEN (IF a[lo] > b[lo] THEN 1 ELSE IF a[lo] < b[lo] THEN -1 ELSE 0)
    ELSE LET mid == (lo + hi) \div 2
             up  == mag_cmp_range(a, b, mid + 1, hi)
         IN  IF up # 0 THEN up ELSE mag_cmp_range(a, b, lo, mid)

mag_cmp(a, b) ==
    IF Len(a) > Len(b) THEN 1
    ELSE IF Len(a) < Len(b) THEN -1
    ELSE mag_cmp_range(a, b, 1, Len(a))

mag_shl(a, k) == IF a = <<>> THEN <<>> ELSE mag_zeros(k) \o a

mag_shr(a, k) == IF k >= Len(a) THEN <<>> ELSE SubSeq(a, k + 1, Len(a))

\* some bit among the low k bits is set
mag_low_set(a, k) == \E i \in 1..k : mag_bit(a, i) = 1

\* the sum of a << (i-1) over the set bits i of b in lo..hi
RECURSIVE mag_mul_range(_, _, _, _)
mag_mul_range(a, b, lo, hi) ==
    IF lo > hi THEN <<>>
    ELSE IF lo = hi THEN (IF b[lo] = 1 THEN mag_shl(a, lo - 1) ELSE <<>>)
    ELSE LET mid == (lo + hi) \div 2
         IN  mag_add(mag_mul_range(a, b, lo, mid), mag_mul_range(a, b, mid + 1, hi))

mag_mul(a, b) == mag_mul_range(a, b, 1, Len(b))

\* one step of long division: the remainder r of the bits above takes the bit
mag_div_step(bit, d, r) ==
    LET r2 == mag_trim(<<bit>> \o r)
    IN  IF mag_cmp(r2, d) >= 0
        THEN [q |-> <<1>>, r |-> mag_sub(r2, d)]
        ELSE [q |-> <<0>>, r |-> r2]

\* long division of the bits hi..lo of a by d, given the remainder r of the
\* bits above hi: [q |-> the quotient bits hi..lo, most significant first,
\* r |-> the remainder]
RECURSIVE mag_divmod_range(_, _, _, _, _)
mag_divmod_range(a, d, lo, hi, r) ==
    IF lo = hi THEN mag_div_step(a[lo], d, r)
    ELSE LET mid == (lo + hi) \div 2
             up  == mag_divmod_range(a, d, mid + 1, hi, r)
             low == mag_divmod_range(a, d, lo, mid, up.r)
         IN  [q |-> up.q \o low.q, r |-> low.r]

mag_reverse(s) == [i \in 1..Len(s) |-> s[Len(s) + 1 - i]]

mag_divmod(a, d) ==
    IF a = <<>> THEN [q |-> <<>>, r |-> <<>>]
    ELSE LET res == mag_divmod_range(a, d, 1, Len(a), <<>>)
         IN  [q |-> mag_trim(mag_reverse(res.q)), r |-> res.r]

int_make(neg, mag) == [neg |-> neg /\ mag # <<>>, mag |-> mag]

\* the Python int of a (small) integer of the model
int_of(n) == int_make(n < 0, mag_of_nat(IF n < 0 THEN -n ELSE n))

int_zero == int_of(0)

int_one == int_of(1)

int_is_zero(x) == x.mag = <<>>

int_sign(x) == IF x.mag = <<>> THEN 0 ELSE IF x.neg THEN -1 ELSE 1

\* int.bit_length(): the bits of the absolute value
bit_length(x) == Len(x.mag)

\* -x
int_neg(x) == int_make(~x.neg, x.mag)

\* abs(x)
int_abs(x) == int_make(FALSE, x.mag)

\* x + y
int_add(x, y) ==
    IF x.neg = y.neg THEN int_make(x.neg, mag_add(x.mag, y.mag))
    ELSE IF mag_cmp(x.mag, y.mag) >= 0
         THEN int_make(x.neg, mag_sub(x.mag, y.mag))
         ELSE int_make(y.neg, mag_sub(y.mag, x.mag))

\* x * y
int_mul(x, y) == int_make(x.neg # y.neg, mag_mul(x.mag, y.mag))

\* x << k, for k >= 0 (Python raises ValueError for k < 0)
int_lshift(x, k) == int_make(x.neg, mag_shl(x.mag, k))

\* x >> k, for k >= 0: the floor of x / 2^k, also for a negative x
int_rshift(x, k) ==
    LET q == mag_shr(x.mag, k)
    IN  IF x.neg /\ mag_low_set(x.mag, k)
        THEN int_make(TRUE, mag_add(q, <<1>>))
        ELSE int_make(x.neg, q)

\* x // y for y # 0: the floor of x / y
int_floordiv(x, y) ==
    LET dm == mag_divmod(x.mag, y.mag)
    IN  IF x.neg # y.neg /\ dm.r # <<>>
        THEN int_make(TRUE, mag_add(dm.q, <<1>>))
        ELSE int_make(x.neg # y.neg, dm.q)

\* x % 2 == 1 (Python's % is non-negative for a positive modulus)
int_is_odd(x) == mag_bit(x.mag, 1) = 1

\* (1 << k) - 1
bitmask(k) == int_make(FALSE, [i \in 1..k |-> 1])

\* x & y for non-negative x and y
int_and(x, y) ==
    int_make(FALSE, mag_trim([i \in 1..Len(x.mag) |->
                                 IF mag_bit(y.mag, i) = 1 THEN x.mag[i] ELSE 0]))

\* -1, 0, 1 as x < y, x = y, x > y
int_cmp(x, y) == int_sign(int_add(x, int_neg(y)))

(***************************************************************************)
(* class Real and the arithmetic functions.  A Real is a record            *)
(* [coefficient, exponent, precision]; a call either returns or raises:    *)
(* [err |-> "none", ret |-> ...] or [err |-> the exception, ret |-> None]. *)
(***************************************************************************)

None == [none |-> TRUE]

\* Real.default_precision
default_precision == 256

returns(r) == [err |-> "none", ret |-> r]

raises(e) == [err |-> e, ret |-> None]

\* Real.normalize: right shift the coefficient by the bits it has more than
\* precision, and add the shift to the exponent
normalize(self) ==
    LET bit_diff == bit_length(self.coefficient) - self.precision
    IN  IF bit_diff > 0
        THEN [self EXCEPT !.coefficient = int_rshift(self.coefficient, bit_diff),
                          !.exponent = self.exponent + bit_diff]
        ELSE self

\* Real.__init__ on a (coefficient, exponent) pair, past the precision check
Real(coefficient, exponent, precision) ==
    normalize([coefficient |-> coefficient, exponent |-> exponent,
               precision |-> precision])

\* real_from_int
real_from_int(i) == <<i, 0>>

\* Real(i) and Real(i, precision=p) for an int i
RealFromInt(i, precision) ==
    Real(real_from_int(i)[1], real_from_int(i)[2], precision)

\* Real.set_precision
set_precision(self, precision) == normalize([self EXCEPT !.precision = precision])

\* Real.next; a negative shift count raises ValueError
next(self) ==
    LET amount == self.precision - bit_length(self.coefficient)
        coef   == int_add(int_lshift(self.coefficient, amount), int_one)
    IN  IF amount < 0 THEN raises("ValueError")
        ELSE returns(Real(coef, self.exponent, self.precision))

neg(x) == Real(int_neg(x.coefficient), x.exponent, x.precision)

_abs(x) == Real(int_abs(x.coefficient), x.exponent, x.precision)

_round(x) ==
    IF x.exponent >= 0
    THEN RealFromInt(int_lshift(x.coefficient, x.exponent), default_precision)
    ELSE LET exp == -x.exponent
             x1  == int_rshift(x.coefficient, exp - 1)
             x2  == IF int_is_odd(x1) THEN int_add(x1, int_one) ELSE x1
         IN  RealFromInt(int_rshift(x2, 1), default_precision)

RECURSIVE floor(_), ceil(_)

floor(x) ==
    IF x.exponent >= 0
    THEN RealFromInt(int_lshift(x.coefficient, x.exponent), default_precision)
    ELSE IF int_sign(x.coefficient) < 0
    THEN neg(ceil(neg(x)))
    ELSE RealFromInt(int_rshift(x.coefficient, -x.exponent), default_precision)

ceil(x) ==
    IF x.exponent >= 0
    THEN RealFromInt(int_lshift(x.coefficient, x.exponent), default_precision)
    ELSE IF int_sign(x.coefficient) < 0
    THEN neg(floor(neg(x)))
    ELSE LET exp == -x.exponent
         IN  IF ~int_is_zero(int_and(x.coefficient, bitmask(exp)))
             THEN RealFromInt(int_add(int_rshift(x.coefficient, exp), int_one),
                              default_precision)
             ELSE RealFromInt(int_rshift(x.coefficient, exp), default_precision)

Min(a, b) == IF a < b THEN a ELSE b

Max(a, b) == IF a > b THEN a ELSE b

add(x, y) ==
    LET lo == IF x.exponent > y.exponent THEN y ELSE x
        hi == IF x.exponent > y.exponent THEN x ELSE y
        coefficient == int_add(lo.coefficient,
                               int_lshift(hi.coefficient, hi.exponent - lo.exponent))
    IN  Real(coefficient, lo.exponent, Min(lo.precision, hi.precision))

\* mul with the exponents subtracted, as div does
mul_exponent_difference(x, y) ==
    Real(int_mul(x.coefficient, y.coefficient), x.exponent - y.exponent,
         Min(x.precision, y.precision))

mul(x, y) ==
    Real(int_mul(x.coefficient, y.coefficient), x.exponent + y.exponent,
         Min(x.precision, y.precision))

\* div with the zero test on the dividend: a zero divisor then reaches the
\* integer division, where Python raises ZeroDivisionError
div_tests_dividend(x, y) ==
    IF int_is_zero(x.coefficient) THEN raises("InvalidOperationError")
    ELSE IF int_is_zero(y.coefficient) THEN raises("ZeroDivisionError")
    ELSE LET k == 2 * Max(x.precision, y.precision) + 1
             coefficient == int_floordiv(int_lshift(x.coefficient, k), y.coefficient)
         IN  returns(Real(coefficient, x.exponent - y.exponent - k,
                          Min(x.precision, y.precision)))

div(x, y) ==
    IF int_is_zero(y.coefficient) THEN raises("InvalidOperationError")
    ELSE LET k == 2 * Max(x.precision, y.precision) + 1
             coefficient == int_floordiv(int_lshift(x.coefficient, k), y.coefficient)
         IN  returns(Real(coefficient, x.exponent - y.exponent - k,
                          Min(x.precision, y.precision)))

\* Real.__floordiv__: floor(div(self, other))
floordiv(x, y) ==
    LET q == div(x, y)
    IN  IF q.err # "none" THEN q ELSE returns(floor(q.ret))

(***************************************************************************)
(* compare and sub assign to a field of their argument y, so they are      *)
(* modelled on the objects: h maps an object to its fields, and i and j    *)
(* name the objects passed as x and y (the same object when i = j).        *)
(***************************************************************************)

negate_coefficient(h, j) ==
    [h EXCEPT ![j].coefficient = int_neg(h[j].coefficient)]

\* compare: [heap |-> the objects after the call, val |-> 1, 0 or -1]
compare(h, i, j) ==
    LET h1 == negate_coefficient(h, j)
        x  == IF h1[i].exponent > h1[j].exponent THEN h1[j] ELSE h1[i]
        y  == IF h1[i].exponent > h1[j].exponent THEN h1[i] ELSE h1[j]
        c  == int_add(x.coefficient,
                      int_lshift(y.coefficient, y.exponent - x.exponent))
    IN  [heap |-> h1, val |-> int_sign(c)]

\* sub: [heap |-> the objects after the call, ret |-> the difference]
sub(h, i, j) ==
    LET h1  == negate_coefficient(h, j)
        res == add(h1[i], h1[j])
    IN  [heap |-> negate_coefficient(h1, j), ret |-> res]

(***************************************************************************)
(* The program state: the Real objects the caller holds, and the last call *)
(* with its arguments, the objects as they were before it and what it      *)
(* returned or raised.                                                     *)
(***************************************************************************)

VARIABLES heap, last

vars == <<heap, last>>

\* the caller's objects
Slots == {"x", "y"}

MaxCoef == 3

MaxExp == 1

MaxPrec == 2

\* 2^default_precision + 1: the smallest odd integer of more than
\* default_precision + 1 bits
BigInt == int_add(int_lshift(int_one, default_precision), int_one)

SmallInts == {int_of(n) : n \in -MaxCoef..MaxCoef}

IntArgs == SmallInts \cup {BigInt, int_neg(BigInt)}

Exponents == -MaxExp..MaxExp

\* the precisions a caller passes: 0 is refused by the constructor
Precisions == 0..MaxPrec

IntPrecisions == Precisions \cup {default_precision, default_precision + 1}

IsReal(r) == r # None

NoArgs == [coefficient |-> int_zero, exponent |-> 0, precision |-> 0]

Call(op, x, y, args, res) ==
    [op |-> op, x |-> x, y |-> y, args |-> args, pre |-> heap,
     ret |-> res.ret, val |-> 0, err |-> res.err]

CallVal(op, x, y, val) ==
    [op |-> op, x |-> x, y |-> y, args |-> NoArgs, pre |-> heap,
     ret |-> None, val |-> val, err |-> "none"]

Init ==
    /\ heap = [s \in Slots |-> None]
    /\ last = [op |-> "none", x |-> "x", y |-> "x", args |-> NoArgs,
               pre |-> [s \in Slots |-> None], ret |-> None, val |-> 0,
               err |-> "none"]

\* s = Real(coefficient, exponent, precision=precision), for a name s not yet
\* bound
Construct(s, coefficient, exponent, precision) ==
    heap[s] = None /\
    LET args == [coefficient |-> coefficient, exponent |-> exponent,
                 precision |-> precision]
    IN  IF precision <= 0
        THEN /\ last' = Call("Real", s, s, args, raises("ValueError"))
             /\ UNCHANGED heap
        ELSE /\ heap' = [heap EXCEPT ![s] = Real(coefficient, exponent, precision)]
             /\ last' = Call("Real", s, s, args, returns(heap'[s]))

\* s = Real(i, precision=precision), for a name s not yet bound
ConstructInt(s, i, precision) ==
    heap[s] = None /\
    LET args == [coefficient |-> i, exponent |-> 0, precision |-> precision]
    IN  IF precision <= 0
        THEN /\ last' = Call("RealInt", s, s, args, raises("ValueError"))
             /\ UNCHANGED heap
        ELSE /\ heap' = [heap EXCEPT ![s] = RealFromInt(i, precision)]
             /\ last' = Call("RealInt", s, s, args, returns(heap'[s]))

\* s.set_precision(precision)
SetPrecision(s, precision) ==
    /\ IsReal(heap[s])
    /\ heap' = [heap EXCEPT ![s] = set_precision(heap[s], precision)]
    /\ last' = [Call("set_precision", s, s, NoArgs, returns(None))
                   EXCEPT !.args.precision = precision]

\* s.normalize()
Normalize(s) ==
    /\ IsReal(heap[s])
    /\ heap' = [heap EXCEPT ![s] = normalize(heap[s])]
    /\ last' = Call("normalize", s, s, NoArgs, returns(None))

\* s.next()
NextReal(s) ==
    /\ IsReal(heap[s])
    /\ last' = Call("next", s, s, NoArgs, next(heap[s]))
    /\ UNCHANGED heap

\* compare(x, y)
Compare(x, y) ==
    /\ IsReal(heap[x]) /\ IsReal(heap[y])
    /\ LET r == compare(heap, x, y)
       IN  /\ heap' = r.heap
           /\ last' = CallVal("compare", x, y, r.val)

\* x == y, x != y, x > y, x >= y, x < y, x <= y: 1 for True and 0 for False
RichCompare(op, x, y) ==
    /\ IsReal(heap[x]) /\ IsReal(heap[y])
    /\ LET r == compare(heap, x, y)
           t == CASE op = "__eq__" -> r.val = 0
                  [] op = "__ne__" -> r.val # 0
                  [] op = "__gt__" -> r.val > 0
                  [] op = "__ge__" -> r.val >= 0
                  [] op = "__lt__" -> r.val < 0
                  [] op = "__le__" -> r.val <= 0
       IN  /\ heap' = r.heap
           /\ last' = CallVal(op, x, y, IF t THEN 1 ELSE 0)

RichOps == {"__eq__", "__ne__", "__gt__", "__ge__", "__lt__", "__le__"}

\* neg(x), abs(x), round(x), floor(x), ceil(x)
Unary(op, x) ==
    /\ IsReal(heap[x])
    /\ LET r == CASE op = "neg"   -> neg(heap[x])
                  [] op = "abs"   -> _abs(heap[x])
                  [] op = "round" -> _round(heap[x])
                  [] op = "floor" -> floor(heap[x])
                  [] op = "ceil"  -> ceil(heap[x])
       IN  last' = Call(op, x, x, NoArgs, returns(r))
    /\ UNCHANGED heap

UnaryOps == {"neg", "abs", "round", "floor", "ceil"}

\* add(x, y), mul(x, y), div(x, y), x / y, x // y
Binary(op, x, y) ==
    /\ IsReal(heap[x]) /\ IsReal(heap[y])
    /\ LET r == CASE op = "add"          -> returns(add(heap[x], heap[y]))
                  [] op = "mul"          -> returns(mul(heap[x], heap[y]))
                  [] op = "div"          -> div(heap[x], heap[y])
                  [] op = "__truediv__"  -> div(heap[x], heap[y])
                  [] op = "__floordiv__" -> floordiv(heap[x], heap[y])
       IN  last' = Call(op, x, y, NoArgs, r)
    /\ UNCHANGED heap

BinaryOps == {"add", "mul", "div", "__truediv__", "__floordiv__"}

\* sub(x, y)
Sub(x, y) ==
    /\ IsReal(heap[x]) /\ IsReal(heap[y])
    /\ LET r == sub(heap, x, y)
       IN  /\ heap' = r.heap
           /\ last' = Call("sub", x, y, NoArgs, returns(r.ret))

\* The caller binds x to a Real made from a raw pair and y to a Real made from
\* an int, and then calls the methods and operators of x, the other operand
\* being y or x itself.
Next ==
    \/ \E c \in SmallInts, e \in Exponents, p \in Precisions :
          Construct("x", c, e, p)
    \/ \E i \in SmallInts, p \in Precisions : ConstructInt("y", i, p)
    \/ \E p \in 1..MaxPrec : SetPrecision("x", p)
    \/ Normalize("x")
    \/ NextReal("x")
    \/ \E y \in Slots : Compare("x", y)
    \/ \E op \in RichOps, y \in Slots : RichCompare(op, "x", y)
    \/ \E op \in UnaryOps : Unary(op, "x")
    \/ \E op \in BinaryOps, y \in Slots : Binary(op, "x", y)
    \/ \E y \in Slots : Sub("x", y)

Spec == Init /\ [][Next]_vars

\* The arithmetic alone: the constructors, the calls that assign to a field
\* (set_precision, normalize, compare, sub) and the arithmetic functions
NextArith ==
    \/ \E c \in SmallInts, e \in Exponents, p \in Precisions :
          Construct("x", c, e, p)
    \/ \E i \in SmallInts, p \in Precisions : ConstructInt("y", i, p)
    \/ \E p \in 1..MaxPrec : SetPrecision("x", p)
    \/ Normalize("x")
    \/ \E y \in Slots : Compare("x", y)
    \/ \E op \in {"neg", "abs"} : Unary(op, "x")
    \/ \E op \in BinaryOps, y \in Slots : Binary(op, "x", y)
    \/ \E y \in Slots : Sub("x", y)

SpecArith == Init /\ [][NextArith]_vars

\* Integers at the edge of the default precision: one object, constructed from
\* an int with an explicit precision or the default one, and converted back
NextBig ==
    \/ \E i \in IntArgs, p \in IntPrecisions : ConstructInt("x", i, p)
    \/ \E op \in UnaryOps : Unary(op, "x")

SpecBig == Init /\ [][NextBig]_vars

(***************************************************************************)
(* The properties.  Values are compared exactly: coefficient * 2^exponent. *)
(***************************************************************************)

\* -1, 0, 1 as the value of a is less than, equal to, greater than that of b
value_cmp(a, b) ==
    LET m == Min(a.exponent, b.exponent)
    IN  int_cmp(int_lshift(a.coefficient, a.exponent - m),
                int_lshift(b.coefficient, b.exponent - m))

\* the value of a is an integer
value_is_int(a) ==
    a.exponent >= 0 \/ ~mag_low_set(a.coefficient.mag, -a.exponent)

\* the Reals of the state: the caller's objects and the one last returned
StateReals == {r \in {heap[s] : s \in Slots} \cup {last.ret} : IsReal(r)}

ArithOps == UnaryOps \cup BinaryOps \cup {"sub"}

CompareOps == RichOps \cup {"compare"}

DivOps == {"div", "__truediv__", "__floordiv__"}

Returned == last.err = "none" /\ IsReal(last.ret)

LastX == last.pre[last.x]

LastY == last.pre[last.y]

\* C1: every Real of every reachable state has a coefficient of at most
\* precision bits, after construction, after set_precision and as a result
C1_CoefficientWithinPrecision ==
    \A r \in StateReals : bit_length(r.coefficient) <= r.precision

\* C2: after a comparison or an arithmetic call the caller's objects have the
\* fields they had before the call
C2_OperandsNotMutated ==
    last.op \in ArithOps \cup CompareOps => heap = last.pre

\* C3: compare(x, y) returns the sign of (value of x) - (value of y), the
\* operands taken as they were at the call, also when x and y are one object,
\* and x == y is True exactly when the values are equal
C3_CompareReturnsSign ==
    /\ last.op = "compare" => last.val = value_cmp(LastX, LastY)
    /\ last.op = "__eq__" => (last.val = 1 <=> value_cmp(LastX, LastY) = 0)

\* C4: the result of +, -, *, / and // has the smaller of the two operands'
\* precisions
C4_ResultPrecisionIsMin ==
    last.op \in BinaryOps \cup {"sub"} /\ Returned =>
        last.ret.precision = Min(LastX.precision, LastY.precision)

\* C5: div(x, y), x / y and x // y raise InvalidOperationError, return nothing
\* and leave x and y as they were when y.coefficient is 0, and return a Real
\* and raise nothing when it is not
C5_DivByZeroRaises ==
    last.op \in DivOps =>
        /\ heap = last.pre
        /\ IF int_is_zero(LastY.coefficient)
           THEN last.err = "InvalidOperationError" /\ last.ret = None
           ELSE Returned

\* a division by a zero Real of a Real that is not zero was refused
C5_Witness ==
    /\ last.op = "__floordiv__"
    /\ last.err = "InvalidOperationError"
    /\ last.y = "y"
    /\ int_is_zero(heap["y"].coefficient)
    /\ ~int_is_zero(heap["x"].coefficient)

\* C6: normalize called on a Real, which its constructor has normalized, leaves
\* the coefficient and the exponent as they were
C6_NormalizeIdempotent ==
    last.op = "normalize" => heap = last.pre

\* C7: floor(x) <= x <= ceil(x) as exact values, and both equal x when x is
\* an integer
C7_FloorCeilBracket ==
    /\ last.op = "floor" => value_cmp(last.ret, LastX) <= 0
    /\ last.op = "ceil" => value_cmp(last.ret, LastX) >= 0
    /\ last.op \in {"floor", "ceil"} /\ value_is_int(LastX) =>
           value_cmp(last.ret, LastX) = 0

\* C8: a Real constructed from an int i with a precision of at least
\* bit_length(i), which is the Real (i, 0, precision), is converted back to
\* exactly i by round, floor and ceil
C8_IntRoundTrip ==
    /\ last.op \in {"round", "floor", "ceil"}
    /\ LastX.exponent = 0
    /\ bit_length(LastX.coefficient) <= LastX.precision
    => value_cmp(last.ret, LastX) = 0

\* C9 as stated: every Real with a zero coefficient has exponent 0
C9_ZeroIsCanonical ==
    \A r \in StateReals : int_is_zero(r.coefficient) => r.exponent = 0

\* C9 as amended: a zero keeps the exponent its construction or operation
\* computed: the one given for a raw pair (0, exponent), 0 for the int 0, the
\* smaller exponent for a sum or difference, the sum of the exponents for a
\* product, x.exponent - y.exponent - k for a quotient, and the operand's own
\* for neg, abs and set_precision
C9_ZeroKeepsComputedExponent ==
    /\ last.op \in {"Real", "RealInt"} /\ Returned
       /\ int_is_zero(last.args.coefficient) =>
           /\ int_is_zero(last.ret.coefficient)
           /\ last.ret.exponent = last.args.exponent
    /\ last.op \in {"add", "sub"} /\ int_is_zero(last.ret.coefficient) =>
           last.ret.exponent = Min(LastX.exponent, LastY.exponent)
    /\ last.op = "mul" /\ int_is_zero(last.ret.coefficient) =>
           last.ret.exponent = LastX.exponent + LastY.exponent
    /\ last.op \in {"div", "__truediv__"} /\ Returned
       /\ int_is_zero(last.ret.coefficient) =>
           last.ret.exponent = LastX.exponent - LastY.exponent
                               - (2 * Max(LastX.precision, LastY.precision) + 1)
    /\ last.op \in {"neg", "abs"} /\ int_is_zero(last.ret.coefficient) =>
           last.ret.exponent = LastX.exponent
    /\ last.op = "set_precision" /\ int_is_zero(heap[last.x].coefficient) =>
           heap[last.x].exponent = LastX.exponent

\* a zero with an exponent other than 0 was multiplied by a Real with an
\* exponent other than 0, and the product is a zero
C9_Witness ==
    /\ last.op = "mul"
    /\ last.y = "y"
    /\ int_is_zero(LastX.coefficient)
    /\ LastX.exponent # 0
    /\ LastY.exponent # 0
    /\ int_is_zero(last.ret.coefficient)

\* some coefficient of at most p bits times a power of two lies strictly
\* between the values of a and b
RepresentableBetween(a, b, p) ==
    \E m \in SmallInts, q \in (-2 * (MaxExp + MaxPrec))..(2 * (MaxExp + MaxPrec)) :
        /\ bit_length(m) <= p
        /\ value_cmp(a, [coefficient |-> m, exponent |-> q]) < 0
        /\ value_cmp([coefficient |-> m, exponent |-> q], b) < 0

\* C10: x.next() returns a Real of x's precision, greater than x, with no
\* value of that precision strictly between
C10_NextIsNeighbour ==
    last.op = "next" =>
        /\ Returned
        /\ last.ret.precision = LastX.precision
        /\ value_cmp(LastX, last.ret) < 0
        /\ ~RepresentableBetween(LastX, last.ret, LastX.precision)

=============================================================================
